---- MODULE Spec2Model ----
(***************************************************************************)
(* Certificate Transparency SCT verification (ct-verify.js, utility.js).   *)
(*                                                                         *)
(* Byte arrays that take part in hashing are records [len, val]: len is    *)
(* the byte length the JavaScript code sees (Uint8Array.length) and val is *)
(* the content.  SHA-256 is modelled as an ideal, collision-free hash: the *)
(* content of a digest is its length-prefixed preimage, so two digests are *)
(* equal exactly when their preimages are equal, and the concatenation of  *)
(* two digests parses in one way only.                                     *)
(***************************************************************************)
EXTENDS Integers, Sequences, FiniteSets, TLC

----------------------------------------------------------------------------
(* utility.js: constants *)

ASN1_SEQUENCE_TAG == 48
ASN1_CONTEXT_3_TAG == 163
SCT_OID == <<6, 10, 43, 6, 1, 4, 1, 214, 121, 2, 4, 2>>
MAX_EXTENSION_SIZE == 10000
HASH_SIZE == 32
MERKLE_NODE_SIZE == 1 + HASH_SIZE + HASH_SIZE

(* prefix bytes of the two hash domains (ct-verify.js:217, ct-verify.js:253) *)
LEAF_PREFIX == 0
NODE_PREFIX == 1

----------------------------------------------------------------------------
(* Bounds of the model *)

MaxTreeSize == 4     \* entries of the log's tree
MaxLeafIndex == 5    \* largest leaf_index a proof may carry
MaxPathLen == 3      \* longest audit_path a proof may carry

----------------------------------------------------------------------------
(* Byte arrays and the ideal hash *)

Bytes(n, v) == [len |-> n, val |-> v]

Wrap(v) == <<Len(v)>> \o v

\* crypto.subtle.digest('SHA-256', input): always HASH_SIZE bytes
SHA256(input) == Bytes(HASH_SIZE, Wrap(input.val))

\* a 32-byte value that is the digest of nothing the model hashes
Foreign(k) == Bytes(HASH_SIZE, Wrap(<<2, k>>))

\* what a HASH_SIZE-wide slot of the node buffer holds after set(a, offset):
\* the array itself when it is HASH_SIZE long, otherwise its zero-padded or
\* cut-off image, which is the digest of nothing
Slot(a) == IF a.len = HASH_SIZE THEN a.val ELSE Wrap(<<3, a.len>> \o a.val)

\* fetchAuditProof: leafWithPrefix = 0x00 || merkleTreeLeaf
LeafHashInput(merkleTreeLeaf) ==
    Bytes(1 + merkleTreeLeaf.len, <<LEAF_PREFIX>> \o merkleTreeLeaf.val)

NodeHashInputLeafPrefix(left, right) ==
    Bytes(MERKLE_NODE_SIZE, <<LEAF_PREFIX>> \o Slot(left) \o Slot(right))

\* hashNodes: combined[0] = 0x01; combined.set(left, 1); combined.set(right, 33)
NodeHashInput(left, right) ==
    Bytes(MERKLE_NODE_SIZE, <<NODE_PREFIX>> \o Slot(left) \o Slot(right))

\* hashNodes; Uint8Array.set throws RangeError when the source does not fit.
\* input is the byte string handed to the digest.
hashNodes(left, right) ==
    IF 1 + left.len > MERKLE_NODE_SIZE \/ 1 + HASH_SIZE + right.len > MERKLE_NODE_SIZE
    THEN [threw |-> TRUE, hash |-> Bytes(0, <<>>), input |-> Bytes(0, <<>>)]
    ELSE [threw |-> FALSE, hash |-> SHA256(NodeHashInput(left, right)),
          input |-> NodeHashInput(left, right)]

bytesEqualLengthOnly(a, b) == a.len = b.len

\* bytesEqual
bytesEqual(a, b) == a.len = b.len /\ a.val = b.val

\* An audit_path entry is a base64 string: b64 says whether atob accepts it,
\* len and val are the bytes it decodes to.
PathNode(h) == [b64 |-> TRUE, len |-> h.len, val |-> h.val]

\* results of the loop: threw, or the hash reached; hashed is the set of byte
\* strings handed to the digest by hashNodes
Thrown(hashed) == [threw |-> TRUE, hash |-> Bytes(0, <<>>), hashed |-> hashed]
Returned(h, hashed) == [threw |-> FALSE, hash |-> h, hashed |-> hashed]

RECURSIVE MerkleLoopNoParity(_, _, _, _)
MerkleLoopNoParity(hash, index, auditPath, hashed) ==
    IF auditPath = <<>> THEN Returned(hash, hashed)
    ELSE LET pathNode == Head(auditPath)
             sibling == Bytes(pathNode.len, pathNode.val)
             h == hashNodes(hash, sibling)
         IN  IF ~pathNode.b64 \/ h.threw THEN Thrown(hashed)
             ELSE MerkleLoopNoParity(h.hash, index \div 2, Tail(auditPath),
                                     hashed \cup {h.input})

\* the loop of computeMerkleRoot; base64ToBytes throws on an entry that atob
\* rejects
RECURSIVE MerkleLoop(_, _, _, _)
MerkleLoop(hash, index, auditPath, hashed) ==
    IF auditPath = <<>> THEN Returned(hash, hashed)
    ELSE LET pathNode == Head(auditPath)
             sibling == Bytes(pathNode.len, pathNode.val)
             h == IF index % 2 = 0 THEN hashNodes(hash, sibling)
                                   ELSE hashNodes(sibling, hash)
         IN  IF ~pathNode.b64 \/ h.threw THEN Thrown(hashed)
             ELSE MerkleLoop(h.hash, index \div 2, Tail(auditPath),
                             hashed \cup {h.input})

\* computeMerkleRoot(leafHash, leafIndex, auditPath, treeSize): treeSize is
\* not read
computeMerkleRoot(leafHash, leafIndex, auditPath, treeSize) ==
    MerkleLoop(leafHash, leafIndex, auditPath, {})

\* the comparison with the root hash is left out
CheckProofAnyRoot(leafHash, proof, rootHash, treeSize) ==
    LET r == computeMerkleRoot(leafHash, proof.leaf_index, proof.audit_path, treeSize)
    IN  IF ~proof.has_path THEN [outcome |-> "threw", hashed |-> {}]
        ELSE IF r.threw THEN [outcome |-> "threw", hashed |-> r.hashed]
        ELSE [outcome |-> "true", hashed |-> r.hashed]

\* verifySCT, lines 295-298.  A proof body is [leaf_index, has_path,
\* audit_path]; has_path is FALSE when audit_path is missing or not a list,
\* and then the for-of of computeMerkleRoot throws.  outcome is "threw", or
\* the boolean returned.
CheckProof(leafHash, proof, rootHash, treeSize) ==
    LET r == computeMerkleRoot(leafHash, proof.leaf_index, proof.audit_path, treeSize)
    IN  IF ~proof.has_path THEN [outcome |-> "threw", hashed |-> {}]
        ELSE IF r.threw THEN [outcome |-> "threw", hashed |-> r.hashed]
        ELSE [outcome |-> IF bytesEqual(r.hash, rootHash) THEN "true" ELSE "false",
              hashed |-> r.hashed]

----------------------------------------------------------------------------
(* utility.js, ct-verify.js: DER primitives and the precertificate         *)
(* reconstruction.  Byte buffers are sequences of 0..255; positions are    *)
(* 0-based as in the code.  Reading past the end of a Uint8Array gives     *)
(* undefined, modelled as Undefined.                                       *)

Undefined == 0 - 1

At(bytes, pos) ==
    IF pos >= 0 /\ pos < Len(bytes) THEN bytes[pos + 1] ELSE Undefined

\* Uint8Array.slice(start, end): a negative bound counts from the end, both
\* bounds are clamped to the buffer
SliceBound(bytes, x) ==
    IF x < 0 THEN (IF Len(bytes) + x < 0 THEN 0 ELSE Len(bytes) + x)
    ELSE IF x > Len(bytes) THEN Len(bytes) ELSE x

Slice(bytes, start, end) ==
    SubSeq(bytes, SliceBound(bytes, start) + 1, SliceBound(bytes, end))

\* (len << 8) | b on 32-bit signed integers; an undefined b counts as 0
ShiftOr(len, b) ==
    LET low == len % 16777216
        signed == IF low >= 8388608 THEN low - 16777216 ELSE low
    IN  signed * 256 + (IF b = Undefined THEN 0 ELSE b)

RECURSIVE LongFormLength(_, _, _, _)
LongFormLength(bytes, pos, numBytes, len) ==
    IF numBytes = 0 THEN [length |-> len, nextPos |-> pos, undef |-> FALSE]
    ELSE LongFormLength(bytes, pos + 1, numBytes - 1, ShiftOr(len, At(bytes, pos)))

\* parseASN1Length: undef says that length is undefined (the first byte was
\* read past the end of the buffer)
parseASN1Length(bytes, pos) ==
    LET len == At(bytes, pos)
    IN  IF len = Undefined THEN [length |-> 0, nextPos |-> pos + 1, undef |-> TRUE]
        ELSE IF len >= 128 THEN LongFormLength(bytes, pos + 1, len % 128, 0)
        ELSE [length |-> len, nextPos |-> pos + 1, undef |-> FALSE]

RECURSIVE LengthBytes(_)
LengthBytes(temp) ==
    IF temp > 0 THEN Append(LengthBytes(temp \div 256), temp % 256) ELSE <<>>

encodeASN1LengthThreshold(length) ==
    IF length <= 128 THEN <<length>>
    ELSE <<128 + Len(LengthBytes(length))>> \o LengthBytes(length)

\* encodeASN1Length
encodeASN1Length(length) ==
    IF length < 128 THEN <<length>>
    ELSE <<128 + Len(LengthBytes(length))>> \o LengthBytes(length)

\* containsOID: the scan stops before endPos - oid.length
containsOID(bytes, startPos, endPos, oid) ==
    \E i \in startPos..(endPos - Len(oid) - 1) :
        \A j \in 0..(Len(oid) - 1) : At(bytes, i + j) = oid[j + 1]

Null == [null |-> TRUE, bytes |-> <<>>]
NonNull(b) == [null |-> FALSE, bytes |-> b]

\* extractTBSCertificate
extractTBSCertificate(certDER) ==
    IF At(certDER, 0) # ASN1_SEQUENCE_TAG THEN Null
    ELSE LET certLenResult == parseASN1Length(certDER, 1)
             tbsStart == certLenResult.nextPos
         IN  IF At(certDER, tbsStart) # ASN1_SEQUENCE_TAG THEN Null
             ELSE LET tbsLenResult == parseASN1Length(certDER, tbsStart + 1)
                      tbsEnd == IF tbsLenResult.undef THEN 0   \* slice(start, NaN)
                                ELSE tbsLenResult.nextPos + tbsLenResult.length
                  IN  NonNull(Slice(certDER, tbsStart, tbsEnd))

\* the while loop of filterSCTFromExtensions; returns the kept extensions
\* concatenated
RECURSIVE FilterLoop(_, _, _, _)
FilterLoop(bytes, pos, seqEnd, kept) ==
    IF ~(pos < seqEnd) \/ At(bytes, pos) # ASN1_SEQUENCE_TAG THEN kept
    ELSE LET extLenResult == parseASN1Length(bytes, pos + 1)
             extEnd == extLenResult.nextPos + extLenResult.length
         IN  IF extLenResult.undef THEN kept   \* extEnd is NaN: nothing kept, loop ends
             ELSE FilterLoop(bytes, extEnd, seqEnd,
                     IF containsOID(bytes, extLenResult.nextPos, extEnd, SCT_OID)
                     THEN kept ELSE kept \o Slice(bytes, pos, extEnd))

\* filterSCTFromExtensions
filterSCTFromExtensions(extensionsBytes) ==
    IF At(extensionsBytes, 0) # ASN1_SEQUENCE_TAG THEN Null
    ELSE LET seqLenResult == parseASN1Length(extensionsBytes, 1)
             pos == seqLenResult.nextPos
             seqEnd == IF seqLenResult.undef THEN pos ELSE pos + seqLenResult.length
             keptExtensionsData == FilterLoop(extensionsBytes, pos, seqEnd, <<>>)
         IN  NonNull(<<ASN1_SEQUENCE_TAG>>
                       \o encodeASN1Length(Len(keptExtensionsData))
                       \o keptExtensionsData)

\* lines 50-62: does the for loop of removeSCTExtension stop at position i
IsSctField(bytes, i) ==
    /\ At(bytes, i) = ASN1_CONTEXT_3_TAG
    /\ LET extLenResult == parseASN1Length(bytes, i + 1)
           extSeqStart == extLenResult.nextPos
           extFieldEnd == extSeqStart + extLenResult.length
       IN  /\ ~(extLenResult.length < 0)
           /\ ~(extLenResult.length > MAX_EXTENSION_SIZE)
           /\ ~(extFieldEnd > Len(bytes))
           /\ At(bytes, extSeqStart) = ASN1_SEQUENCE_TAG
           /\ containsOID(bytes, extSeqStart, extFieldEnd, SCT_OID)

\* lines 64-83: the TBSCertificate rebuilt around the field at position i
RebuildAt(bytes, tbsContentStart, i) ==
    LET extLenResult == parseASN1Length(bytes, i + 1)
        extSeqStart == extLenResult.nextPos
        extFieldEnd == extSeqStart + extLenResult.length
        filteredExtensions ==
            filterSCTFromExtensions(Slice(bytes, extSeqStart, extFieldEnd))
        newExtensionsField ==
            <<ASN1_CONTEXT_3_TAG>>
              \o encodeASN1Length(Len(filteredExtensions.bytes))
              \o filteredExtensions.bytes
        newTBSContent ==
            Slice(bytes, tbsContentStart, i)
              \o newExtensionsField
              \o Slice(bytes, extFieldEnd, Len(bytes))
    IN  IF filteredExtensions.null THEN Null
        ELSE NonNull(<<ASN1_SEQUENCE_TAG>>
                       \o encodeASN1Length(Len(newTBSContent))
                       \o newTBSContent)

\* the for loop of removeSCTExtension from position i on: the first position
\* below bytes.length - SCT_OID.length that passes the tests of lines 50-62
\* is rebuilt; with none the input is returned
RemoveScan(bytes, tbsContentStart, i) ==
    LET hits == {j \in i..(Len(bytes) - Len(SCT_OID) - 1) : IsSctField(bytes, j)}
    IN  IF hits = {} THEN NonNull(bytes)
        ELSE RebuildAt(bytes, tbsContentStart,
                       CHOOSE j \in hits : \A k \in hits : j <= k)

\* removeSCTExtension
removeSCTExtension(tbsCert) ==
    IF At(tbsCert, 0) # ASN1_SEQUENCE_TAG THEN Null
    ELSE LET tbsContentStart == parseASN1Length(tbsCert, 1).nextPos
         IN  RemoveScan(tbsCert, tbsContentStart, tbsContentStart)

\* A JavaScript number or BigInt that may pass 2^31 is kept as three limbs
\* of 24 bits, least significant first.  BigInt(value) of a non-negative
\* integer below 2^31:
BigInt(value) == <<value % 16777216, value \div 16777216, 0>>

\* (bigValue >> BigInt(i * 8)) & BigInt(0xff)
ShiftMask(bigValue, i) ==
    IF i \div 3 >= Len(bigValue) THEN 0
    ELSE LET limb == bigValue[i \div 3 + 1]
         IN  CASE i % 3 = 0 -> limb % 256
               [] i % 3 = 1 -> (limb \div 256) % 256
               [] OTHER -> (limb \div 65536) % 256

encodeLittleEndian(bigValue, numBytes) ==
    [k \in 1..numBytes |-> ShiftMask(bigValue, k - 1)]

\* encodeBigEndian, from the BigInt on: byte i = numBytes-1 first, byte 0 last
encodeBigEndian(bigValue, numBytes) ==
    [k \in 1..numBytes |-> ShiftMask(bigValue, numBytes - k)]

\* buildPrecertEntry
buildPrecertEntry(sct, issuerKeyHash, tbsCertificate) ==
    <<0, 0>>
      \o encodeBigEndian(sct.timestamp, 8)
      \o <<0, 1>>
      \o issuerKeyHash
      \o encodeBigEndian(BigInt(Len(tbsCertificate)), 3)
      \o tbsCertificate
      \o <<0, 0>>

----------------------------------------------------------------------------
(* sct-parser.js.  parseASN1Length there (lines 90-103) is a copy of the   *)
(* one of utility.js.  The timestamp is a number in limbs, or NotANumber.  *)

NotANumber == <<0 - 1>>

\* value * 256 + b
MulAdd256(value, b) ==
    IF value = NotANumber \/ b = Undefined THEN NotANumber
    ELSE <<(value[1] % 65536) * 256 + b,
           (value[2] % 65536) * 256 + value[1] \div 65536,
           value[3] * 256 + value[2] \div 65536>>

WideGreater(a, b) ==
    \/ a[3] > b[3]
    \/ a[3] = b[3] /\ a[2] > b[2]
    \/ a[3] = b[3] /\ a[2] = b[2] /\ a[1] > b[1]

\* the largest time value of a Date, 8.64e15 milliseconds
MaxTimeValue == <<14417920, 11667650, 30>>

ToISOStringNeverThrows(timestamp) == FALSE

\* new Date(timestamp).toISOString() throws RangeError on an invalid date.
\* Above 2^53 the sum of lines 144-147 is rounded, but stays above
\* MaxTimeValue, so the exact value decides.
ToISOStringThrows(timestamp) ==
    timestamp = NotANumber \/ WideGreater(timestamp, MaxTimeValue)

\* (bytes[pos] << 8) | bytes[pos + 1]; undefined counts as 0
ReadUint16(bytes, pos) ==
    LET hi == At(bytes, pos)
        lo == At(bytes, pos + 1)
    IN  (IF hi = Undefined THEN 0 ELSE hi) * 256 + (IF lo = Undefined THEN 0 ELSE lo)

\* bytes.map(b => b.toString(16).padStart(2, '0')).join(''): the string as
\* the sequence of its hexadecimal digits
ToHex(bytes) ==
    [k \in 1..(2 * Len(bytes)) |->
        IF k % 2 = 1 THEN bytes[(k + 1) \div 2] \div 16 ELSE bytes[k \div 2] % 16]

\* hashAlgMap[hashAlg] || `unknown(${hashAlg})`
HashAlgorithmName(hashAlg) ==
    CASE hashAlg = 0 -> <<"none">>
      [] hashAlg = 1 -> <<"md5">>
      [] hashAlg = 2 -> <<"sha1">>
      [] hashAlg = 3 -> <<"sha224">>
      [] hashAlg = 4 -> <<"sha256">>
      [] hashAlg = 5 -> <<"sha384">>
      [] hashAlg = 6 -> <<"sha512">>
      [] OTHER -> <<"unknown", hashAlg>>

\* sigAlgMap[sigAlg] || `unknown(${sigAlg})`
SignatureAlgorithmName(sigAlg) ==
    CASE sigAlg = 0 -> <<"anonymous">>
      [] sigAlg = 1 -> <<"rsa">>
      [] sigAlg = 2 -> <<"dsa">>
      [] sigAlg = 3 -> <<"ecdsa">>
      [] OTHER -> <<"unknown", sigAlg>>

\* the loop of lines 144-147 over the 8 bytes from pos on
ReadTimestamp(bytes, pos) ==
    LET step(value, k) == MulAdd256(value, At(bytes, pos + k))
    IN  step(step(step(step(step(step(step(step(<<0, 0, 0>>, 0), 1), 2), 3), 4), 5), 6), 7)

NoSct == [version |-> 0]

\* parseCompleteSCT: kind is "null" (line 129), "threw" (toISOString,
\* line 148) or "ok" with the record and the next position
parseCompleteSCT(bytes, startPos) ==
    LET sctLen == ReadUint16(bytes, startPos)
        pos == startPos + 2
        timestamp == ReadTimestamp(bytes, pos + 1 + HASH_SIZE)
        extAt == pos + 1 + HASH_SIZE + 8
        extLen == ReadUint16(bytes, extAt)
        algAt == extAt + 2 + extLen
        sigLen == ReadUint16(bytes, algAt + 2)
        sigAt == algAt + 4
    IN  IF pos + sctLen > Len(bytes) THEN [kind |-> "null", sct |-> NoSct, nextPos |-> pos]
        ELSE IF ToISOStringThrows(timestamp)
             THEN [kind |-> "threw", sct |-> NoSct, nextPos |-> pos]
        ELSE [kind |-> "ok",
              sct |-> [version |-> At(bytes, pos),
                       logId |-> ToHex(Slice(bytes, pos + 1, pos + 1 + HASH_SIZE)),
                       timestamp |-> timestamp,
                       extensions |-> IF extLen > 0 THEN Slice(bytes, extAt + 2, extAt + 2 + extLen)
                                                    ELSE <<>>,
                       signatureHashAlgorithm |-> HashAlgorithmName(At(bytes, algAt)),
                       signatureAlgorithm |-> SignatureAlgorithmName(At(bytes, algAt + 1)),
                       signature |-> ToHex(Slice(bytes, sigAt, sigAt + sigLen)),
                       origin |-> "embedded"],
              nextPos |-> sigAt + sigLen]

\* the while loop of lines 63-71
RECURSIVE ParseList(_, _, _, _)
ParseList(bytes, pos, listEnd, scts) ==
    IF ~(pos < listEnd /\ pos + 2 < Len(bytes)) THEN [threw |-> FALSE, scts |-> scts]
    ELSE LET result == parseCompleteSCT(bytes, pos)
         IN  CASE result.kind = "threw" -> [threw |-> TRUE, scts |-> <<>>]
               [] result.kind = "null" -> [threw |-> FALSE, scts |-> scts]
               [] OTHER -> ParseList(bytes, result.nextPos, listEnd, Append(scts, result.sct))

\* lines 36-75: the OID was found at offset i
ParseAfterOID(bytes, i) ==
    LET octets == {p \in (i + Len(SCT_OID))..(Len(bytes) - 1) : At(bytes, p) = 4}
        outer == CHOOSE p \in octets : \A q \in octets : p <= q
        len1 == parseASN1Length(bytes, outer + 1)
        len2 == parseASN1Length(bytes, len1.nextPos + 1)
        listLen == ReadUint16(bytes, len2.nextPos)
    IN  IF octets = {} THEN [threw |-> FALSE, scts |-> <<>>]
        ELSE IF At(bytes, len1.nextPos) # 4 THEN [threw |-> FALSE, scts |-> <<>>]
        ELSE ParseList(bytes, len2.nextPos + 2, len2.nextPos + 2 + listLen, <<>>)

OidOffsetsAllButLast(bytes) ==
    {i \in 0..(Len(bytes) - Len(SCT_OID) - 1) :
        \A j \in 0..(Len(SCT_OID) - 2) : At(bytes, i + j) = SCT_OID[j + 1]}

\* the offsets the search of lines 24-31 accepts
OidOffsets(bytes) ==
    {i \in 0..(Len(bytes) - Len(SCT_OID) - 1) :
        \A j \in 0..(Len(SCT_OID) - 1) : At(bytes, i + j) = SCT_OID[j + 1]}

\* parseSCTFromCertificate: threw, or the list returned
parseSCTFromCertificate(certDER) ==
    LET found == OidOffsets(certDER)
    IN  IF found = {} THEN [threw |-> FALSE, scts |-> <<>>]
        ELSE ParseAfterOID(certDER, CHOOSE i \in found : \A k \in found : i <= k)

----------------------------------------------------------------------------
(* The log's tree (RFC 6962 section 2.1) over the leaf hashes              *)
(* leafHashOf(0), leafHashOf(1), ...; used to produce honest tree heads    *)
(* and proofs.                                                             *)

RECURSIVE SplitPoint(_, _)
SplitPoint(n, k) == IF 2 * k < n THEN SplitPoint(n, 2 * k) ELSE k

\* Merkle tree hash of the entries lo .. hi-1
RECURSIVE MTH(_, _, _)
MTH(leafHashOf(_), lo, hi) ==
    IF hi - lo = 1 THEN leafHashOf(lo)
    ELSE LET k == SplitPoint(hi - lo, 1)
         IN  SHA256(NodeHashInput(MTH(leafHashOf, lo, lo + k),
                                  MTH(leafHashOf, lo + k, hi)))

\* audit path of entry m in the tree over lo .. hi-1, leaf-most sibling first
RECURSIVE PATH(_, _, _, _)
PATH(leafHashOf(_), m, lo, hi) ==
    IF hi - lo = 1 THEN <<>>
    ELSE LET k == SplitPoint(hi - lo, 1)
         IN  IF m < lo + k
             THEN Append(PATH(leafHashOf, m, lo, lo + k),
                         PathNode(MTH(leafHashOf, lo + k, hi)))
             ELSE Append(PATH(leafHashOf, m, lo + k, hi),
                         PathNode(MTH(leafHashOf, lo, lo + k)))

\* entries of the manually built tree
TestEntry(i) == Bytes(1, <<100 + i>>)

TestLeafHash(i) == SHA256(LeafHashInput(TestEntry(i)))
TestRoot(n) == MTH(TestLeafHash, 0, n)
TestPath(i, n) == PATH(TestLeafHash, i, 0, n)

\* every sibling of every correct path, and one foreign value
SiblingPool ==
    UNION {{TestPath(i, n)[k] : k \in 1..Len(TestPath(i, n))} :
              i \in 0..(MaxTreeSize - 1), n \in 1..MaxTreeSize}
    \cup {PathNode(Foreign(0))}

RECURSIVE SeqsUpTo(_, _)
SeqsUpTo(S, n) ==
    IF n = 0 THEN {<<>>}
    ELSE LET shorter == SeqsUpTo(S, n - 1)
         IN  shorter \cup {Append(s, x) : s \in {t \in shorter : Len(t) = n - 1}, x \in S}

----------------------------------------------------------------------------
(* Specification Spec: one call of verifyCertificateSCTs(certData), its    *)
(* awaits on the two requests of each SCT answered by the environment.     *)

VARIABLES
    certData,      \* the argument of the call
    pc,            \* "idle", "sth" / "proof" (awaiting that response for SCT cur),
                   \* "returned", "threw"; "off" outside Spec
    cur,           \* position in certData.scts of the SCT being verified
    results,       \* the results array of verifyCertificateSCTs
    summary,       \* the object returned
    modifiedTBS,   \* the reconstructed precertificate TBS (line 320)
    issuerKeyHash, \* line 325
    leafHash,      \* leaf hash of SCT cur (fetchAuditProof, line 221)
    head,          \* treeHeadInfo of SCT cur
    requests,      \* requests issued so far: [sct, kind], and for a proof
                   \* request the hash and tree_size of its URL
    leafInputs,    \* byte strings hashed as leaves so far (fetchAuditProof)
    hashedNodes,   \* byte strings hashed by hashNodes in the latest step
    logIndex,      \* environment: where the log of SCT cur holds the entry
    fetchFailed,   \* history: per verified SCT, did one of its requests fail
    ownVerdict,    \* history: per verified SCT, the verdict its own exchange gives
    silent         \* environment: the SCTs whose log never answers a request

\* the variables of SpecMerkle: the inputs of one proof check and its verdict
VARIABLES mLeaf, mProof, mHead, mVerdict

mvars == <<mLeaf, mProof, mHead, mVerdict>>

\* the variables of SpecRemove: a TBSCertificate, removeSCTExtension of it,
\* and removeSCTExtension of that
VARIABLES rTbs, rOnce, rTwice

rvars == <<rTbs, rOnce, rTwice>>

\* the variables of SpecLength: a length, encodeASN1Length of it, and
\* parseASN1Length of that
VARIABLES lN, lEncoded, lParsed

lvars == <<lN, lEncoded, lParsed>>

\* the variables of SpecLeaf: the arguments of buildPrecertEntry and its result
VARIABLES bSct, bKey, bTbs, bLeaf

bvars == <<bSct, bKey, bTbs, bLeaf>>

\* the variables of SpecParser: a certificate and parseSCTFromCertificate of it
VARIABLES pCert, pOut

pvars == <<pCert, pOut>>

\* the variables of SpecExtract: a certificate, parseASN1Length at its
\* position 1, and extractTBSCertificate of it
VARIABLES xCert, xLength, xTbs

xvars == <<xCert, xLength, xTbs>>

\* the variables of SpecEncode: the arguments of encodeBigEndian and its result
VARIABLES eValue, eWidth, eBytes

evars == <<eValue, eWidth, eBytes>>

\* the variables of SpecContains: the arguments of containsOID and its result
VARIABLES cBytes, cStart, cEnd, cOid, cFound

cvars == <<cBytes, cStart, cEnd, cOid, cFound>>

\* the variables of SpecCache (background.js): certificateCache, the
\* invocations of the onHeadersReceived listener in the order of their
\* responses, and the tabs that were closed
VARIABLES certificateCache, handlers, closedTabs

kvars == <<certificateCache, handlers, closedTabs>>

gvars == <<xvars, evars, cvars, kvars>>

\* the variables of the specifications of single functions
fvars == <<rvars, lvars, bvars, pvars, gvars>>

ovars == <<certData, pc, cur, results, summary, modifiedTBS, issuerKeyHash,
           leafHash, head, requests, leafInputs, hashedNodes, logIndex,
           fetchFailed, ownVerdict, silent>>

MaxScts == 2         \* SCTs in certData.scts

(* certificates handed to the call *)

Tlv(tag, content) == <<tag, Len(content)>> \o content

OtherExtension(n) == Tlv(48, <<6, 3, 85, 29, n>>)
SctExtension == Tlv(48, SCT_OID \o <<4, 2, 4, 0>>)
TbsWith(extensions) == Tlv(48, <<2, 1, 5>> \o Tlv(163, Tlv(48, extensions)))
CertOf(tbs) == Tlv(48, tbs \o <<48, 0>> \o <<3, 1, 0>>)

\* a leaf certificate with three extensions, the second the SCT list
CertWithSCT == CertOf(TbsWith(OtherExtension(15) \o SctExtension \o OtherExtension(19)))
\* a leaf certificate without an extensions field
CertNoExtensions == CertOf(Tlv(48, <<2, 1, 5, 2, 1, 6, 2, 1, 7, 2, 1, 8, 2, 1, 9>>))
\* outer tag is SET, not SEQUENCE
CertBadOuterTag == <<49>> \o Tail(CertWithSCT)
\* TBSCertificate tag is SET, not SEQUENCE
CertBadInnerTag == <<48, CertWithSCT[2], 49>> \o SubSeq(CertWithSCT, 4, Len(CertWithSCT))
\* the second element of the extensions list is an OCTET STRING
CertBadExtension ==
    CertOf(TbsWith(OtherExtension(15) \o Tlv(4, <<1, 2, 3>>)
                     \o SctExtension \o OtherExtension(19)))
\* the buffer ends before the declared end of the TBSCertificate
CertTruncated == SubSeq(CertWithSCT, 1, Len(CertWithSCT) - 10)

LeafCerts == {CertWithSCT, CertNoExtensions, CertBadOuterTag, CertBadInnerTag,
              CertBadExtension, CertTruncated}

Certificate(hasRaw, rawDER, hasDigest) ==
    [hasRaw |-> hasRaw, rawDER |-> rawDER, hasDigest |-> hasDigest]

\* chains of 0, 1 or 2 certificates: leaf with or without raw bytes, issuer
\* with or without raw bytes and with or without subjectPublicKeyInfoDigest
CertificateChains ==
    LET leaves == {Certificate(TRUE, d, TRUE) : d \in LeafCerts}
                    \cup {Certificate(FALSE, <<>>, TRUE)}
        issuers == {Certificate(r, <<>>, d) : r \in BOOLEAN, d \in BOOLEAN}
    IN  {<<>>} \cup {<<l>> : l \in leaves} \cup {<<l, i>> : l \in leaves, i \in issuers}

\* sct.logState as injectLogInfo leaves it: the state object of the log list
\* ("readonlyBad": state readonly without final_tree_head), or "unknown" when
\* the log is not in the list (no logState, no logUrl)
LogStates == {"usable", "retired", "readonly", "readonlyBad", "unknown"}

SctLists ==
    {[k \in 1..Len(st) |-> [timestamp |-> <<1000 + k, 0, 0>>, logState |-> st[k]]] :
        st \in SeqsUpTo(LogStates, MaxScts)}

\* the issuer key hash a present subjectPublicKeyInfoDigest.sha256 decodes to
IssuerDigest == [k \in 1..HASH_SIZE |-> 170]

ZeroResult == [total |-> 0, verified |-> 0, failed |-> 0, results |-> <<>>]
NoSummary == [total |-> 0 - 1, verified |-> 0, failed |-> 0, results |-> <<>>]
NoHead == [treeSize |-> 0, rootHash |-> Bytes(0, <<>>)]
NoHash == Bytes(0, <<>>)

(* verifyCertificateSCTs *)

InputsMissingLeafOnly(cd) ==
    \/ Len(cd.scts) = 0
    \/ Len(cd.certificates) < 2
    \/ ~cd.certificates[1].hasRaw

\* lines 306-313
InputsMissing(cd) ==
    \/ Len(cd.scts) = 0
    \/ Len(cd.certificates) < 2
    \/ ~cd.certificates[1].hasRaw
    \/ ~cd.certificates[2].hasRaw

\* lines 315-323: null, or the reconstructed precertificate TBS
ModifiedTBS(cd) ==
    LET tbsCert == extractTBSCertificate(cd.certificates[1].rawDER)
    IN  IF tbsCert.null THEN Null ELSE removeSCTExtension(tbsCert.bytes)

SummariseCountAll(res) ==
    [total |-> Len(res), verified |-> Len(res), failed |-> 0, results |-> res]

\* lines 333-341
Summarise(res) ==
    LET verified == Cardinality({k \in 1..Len(res) : res[k].verified})
    IN  [total |-> Len(res), verified |-> verified,
         failed |-> Len(res) - verified, results |-> res]

(* the environment: tree heads and proofs of a log *)

\* root and audit path of a log of n entries that holds the entry with leaf
\* hash lh at index p
LogRoot(lh, p, n) == MTH(LAMBDA k : IF k = p THEN lh ELSE TestLeafHash(k), 0, n)
LogPath(lh, p, n) == PATH(LAMBDA k : IF k = p THEN lh ELSE TestLeafHash(k), p, 0, n)

\* the final_tree_head of a readonly log: the full tree, the entry last
FinalIndex == MaxTreeSize - 1
FinalTreeHead(lh) ==
    [treeSize |-> MaxTreeSize, rootHash |-> LogRoot(lh, FinalIndex, MaxTreeSize)]

RECURSIVE Pow2(_)
Pow2(n) == IF n = 0 THEN 1 ELSE 2 * Pow2(n - 1)

\* a transport failure, a non-success status, a body that is not JSON
FailedResponses == {[kind |-> "error"], [kind |-> "status"], [kind |-> "badjson"]}

\* get-sth bodies: a tree of n entries holding the entry at index p, with
\* its true root or with another root
SthBody(p, n, root) ==
    [kind |-> "ok", index |-> p, head |-> [treeSize |-> n, rootHash |-> root]]

SthBodies(lh) ==
    UNION {UNION {{SthBody(p, n, LogRoot(lh, p, n)), SthBody(p, n, Foreign(0))} :
                     p \in 0..(n - 1)} :
              n \in 1..MaxTreeSize}

Proof(i, path) == [leaf_index |-> i, has_path |-> TRUE, audit_path |-> path]

\* get-proof-by-hash bodies for an entry held at index p of n
ProofBodies(lh, p, n) ==
    LET good == LogPath(lh, p, n)
        alien == PathNode(Foreign(1))
        notBase64 == [b64 |-> FALSE, len |-> 0, val |-> <<>>]
        tooLong == [b64 |-> TRUE, len |-> HASH_SIZE + 1, val |-> <<4>>]
    IN  {[kind |-> "ok", proof |-> pr] : pr \in
          { Proof(p, good),
            Proof(p + Pow2(Len(good)), good),
            Proof(p, SubSeq(good, 1, Len(good) - 1)),
            Proof(p, Append(good, alien)),
            Proof(p, <<alien>> \o Tail(Append(good, alien))),
            Proof(p, <<notBase64>> \o good),
            Proof(p, Append(good, tooLong)),
            [leaf_index |-> p, has_path |-> FALSE, audit_path |-> <<>>] }}

(* the call, step by step *)

Request(i, kind) == [sct |-> i, kind |-> kind]

\* line 232: the get-proof-by-hash URL carries the leaf hash and the tree size
ProofRequest(i, hash, treeSize) ==
    [sct |-> i, kind |-> "get-proof-by-hash", hash |-> hash, tree_size |-> treeSize]

\* the state at the next await, return or throw
Situation(p, i, res, sum, lh, h, reqs, leaves, nodes, idx, ff, own) ==
    [pc |-> p, cur |-> i, results |-> res, summary |-> sum, leafHash |-> lh,
     head |-> h, requests |-> reqs, leafInputs |-> leaves, hashedNodes |-> nodes,
     logIndex |-> idx, fetchFailed |-> ff, ownVerdict |-> own]

Become(s) ==
    /\ pc' = s.pc
    /\ cur' = s.cur
    /\ results' = s.results
    /\ summary' = s.summary
    /\ leafHash' = s.leafHash
    /\ head' = s.head
    /\ requests' = s.requests
    /\ leafInputs' = s.leafInputs
    /\ hashedNodes' = s.hashedNodes
    /\ logIndex' = s.logIndex
    /\ fetchFailed' = s.fetchFailed
    /\ ownVerdict' = s.ownVerdict
    /\ UNCHANGED <<certData, silent>>

\* an exception leaves verifyCertificateSCTs while SCT i is verified (i = 0:
\* before the loop)
Throw(i, res, nodes, ff, own) ==
    Situation("threw", i, res, NoSummary, NoHash, NoHead, requests, leafInputs,
              nodes, 0, ff, own)

\* lines 333-341: the loop is over
Return(res, nodes, ff, own) ==
    Situation("returned", 0, res, Summarise(res), NoHash, NoHead, requests,
              leafInputs, nodes, 0, ff, own)

BeginSCTAlwaysGetSth(tbs, key, i, res, nodes, ff, own) ==
    LET merkleTreeLeaf == buildPrecertEntry(certData.scts[i], key, tbs)
        leafWithPrefix == LeafHashInput(Bytes(Len(merkleTreeLeaf), merkleTreeLeaf))
    IN  Situation("sth", i, res, NoSummary, SHA256(leafWithPrefix), NoHead,
                  Append(requests, Request(i, "get-sth")),
                  leafInputs \cup {leafWithPrefix}, nodes, 0, ff, own)

\* verifySCT(sct) for SCT i up to its first await on a request:
\* buildPrecertEntry, the leaf hash, and getTreeHeadInfo up to line 186.
\* A readonly log gives its final_tree_head without a request (lines 176-181),
\* which throws TypeError when final_tree_head is missing; the proof is then
\* requested (line 235).
BeginSCT(tbs, key, i, res, nodes, ff, own) ==
    LET merkleTreeLeaf == buildPrecertEntry(certData.scts[i], key, tbs)
        leafWithPrefix == LeafHashInput(Bytes(Len(merkleTreeLeaf), merkleTreeLeaf))
        logState == certData.scts[i].logState
    IN  Situation(
          CASE logState = "readonlyBad" -> "threw"
            [] logState = "readonly" -> "proof"
            [] OTHER -> "sth",
          i, res, NoSummary, SHA256(leafWithPrefix),
          IF logState = "readonly" THEN FinalTreeHead(SHA256(leafWithPrefix))
                                   ELSE NoHead,
          CASE logState = "readonlyBad" -> requests
            [] logState = "readonly" ->
                 Append(requests,
                        ProofRequest(i, SHA256(leafWithPrefix),
                                     FinalTreeHead(SHA256(leafWithPrefix)).treeSize))
            [] OTHER -> Append(requests, Request(i, "get-sth")),
          leafInputs \cup {leafWithPrefix},
          nodes,
          IF logState = "readonly" THEN FinalIndex ELSE 0,
          ff, own)

StopAfterSCT(tbs, key, i, res, nodes, ff, own) == Return(res, nodes, ff, own)

\* the for loop of lines 328-331, from SCT i on
Continue(tbs, key, i, res, nodes, ff, own) ==
    IF i > Len(certData.scts) THEN Return(res, nodes, ff, own)
    ELSE BeginSCT(tbs, key, i, res, nodes, ff, own)

\* the requests of an SCT whose request failed are issued once more
PushRetryFailed(verified, failed, nodes) ==
    IF failed /\ Cardinality({j \in 1..Len(requests) : requests[j].sct = cur}) < 3
    THEN BeginSCT(modifiedTBS, issuerKeyHash, cur, results, nodes, fetchFailed,
                  ownVerdict)
    ELSE Continue(modifiedTBS, issuerKeyHash, cur + 1,
                  Append(results, [sct |-> certData.scts[cur], verified |-> verified]),
                  nodes,
                  Append(fetchFailed, failed),
                  Append(ownVerdict, verified))

\* line 330, then the loop goes on
Push(verified, failed, nodes) ==
    Continue(modifiedTBS, issuerKeyHash, cur + 1,
             Append(results, [sct |-> certData.scts[cur], verified |-> verified]),
             nodes,
             Append(fetchFailed, failed),
             Append(ownVerdict, verified))

\* verifyCertificateSCTs up to the first await on a request
Call ==
    /\ pc = "idle"
    /\ LET inputsOk == ~InputsMissing(certData)
           tbs == IF inputsOk THEN ModifiedTBS(certData) ELSE Null
           \* getIssuerKeyHash, line 142: TypeError without the digest
           keyOk == inputsOk /\ ~tbs.null /\ certData.certificates[2].hasDigest
       IN  /\ modifiedTBS' = tbs.bytes
           /\ issuerKeyHash' = IF keyOk THEN IssuerDigest ELSE <<>>
           /\ Become(IF ~inputsOk \/ tbs.null THEN Return(<<>>, {}, <<>>, <<>>)
                     ELSE IF ~keyOk THEN Throw(0, <<>>, {}, <<>>, <<>>)
                     ELSE Continue(tbs.bytes, IssuerDigest, 1, <<>>, {}, <<>>, <<>>))

IsFetchFailure(r) == r.kind \in {"error", "status"}

FetchResultNoCatch(r) ==
    IF r.kind = "error" THEN "threw"
    ELSE IF r.kind \in {"status", "badjson"} THEN "null" ELSE "ok"

\* lines 185-196 and 234-245: a rejected fetch or json() is caught and gives
\* null, like a status that is not ok
FetchResult(r) ==
    IF r.kind \in {"error", "status", "badjson"} THEN "null" ELSE "ok"

\* the responses a request of SCT cur can get; a log that is not in the list
\* has no logUrl, and the fetch of the resulting URL fails
SthResponses ==
    IF certData.scts[cur].logState = "unknown" THEN {[kind |-> "error"]}
    ELSE FailedResponses \cup SthBodies(leafHash)

ProofResponses ==
    FailedResponses \cup ProofBodies(leafHash, logIndex, head.treeSize)

\* getTreeHeadInfo from line 186 on, fetchAuditProof to line 235.  fetch is
\* called without a signal or a timer (lines 186, 235): the await ends only
\* when the log answers or the connection fails
SthResponse ==
    /\ pc = "sth"
    /\ cur \notin silent
    /\ \E r \in SthResponses :
       Become(CASE FetchResult(r) = "threw" ->
                     Throw(cur, results, {}, Append(fetchFailed, IsFetchFailure(r)),
                           ownVerdict)
                [] FetchResult(r) = "null" ->
                     Push(FALSE, IsFetchFailure(r), {})
                [] OTHER ->
                     Situation("proof", cur, results, NoSummary, leafHash, r.head,
                               Append(requests,
                                      ProofRequest(cur, leafHash, r.head.treeSize)),
                               leafInputs, {}, r.index, fetchFailed, ownVerdict))
    /\ UNCHANGED <<modifiedTBS, issuerKeyHash>>

\* fetchAuditProof from line 235 on, verifySCT lines 291-298, and the loop
ProofResponse ==
    /\ pc = "proof"
    /\ cur \notin silent
    /\ \E r \in ProofResponses :
       Become(CASE FetchResult(r) = "threw" ->
                     Throw(cur, results, {}, Append(fetchFailed, IsFetchFailure(r)),
                           ownVerdict)
                [] FetchResult(r) = "null" ->
                     Push(FALSE, IsFetchFailure(r), {})
                [] OTHER ->
                     LET c == CheckProof(leafHash, r.proof, head.rootHash, head.treeSize)
                     IN  IF c.outcome = "threw"
                         THEN Throw(cur, results, c.hashed, fetchFailed, ownVerdict)
                         ELSE Push(c.outcome = "true", FALSE, c.hashed))
    /\ UNCHANGED <<modifiedTBS, issuerKeyHash>>

\* the variables of the proof-check specification, idle
MerkleIdle ==
    /\ mLeaf = 0
    /\ mProof = Proof(0, <<>>)
    /\ mHead = NoHead
    /\ mVerdict = "off"

\* the variables of the specifications of single functions, idle
Pending == [pending |-> TRUE]

RemoveIdle ==
    /\ rTbs = <<>>
    /\ rOnce = Pending
    /\ rTwice = Pending

LengthIdle ==
    /\ lN = 0
    /\ lEncoded = <<>>
    /\ lParsed = Pending

LeafIdle ==
    /\ bSct = Pending
    /\ bKey = <<>>
    /\ bTbs = <<>>
    /\ bLeaf = Pending

ParserIdle ==
    /\ pCert = <<>>
    /\ pOut = Pending

ExtractIdle ==
    /\ xCert = <<>>
    /\ xLength = Pending
    /\ xTbs = Pending

EncodeIdle ==
    /\ eValue = <<>>
    /\ eWidth = 0
    /\ eBytes = Pending

ContainsIdle ==
    /\ cBytes = <<>>
    /\ cStart = 0
    /\ cEnd = 0
    /\ cOid = <<>>
    /\ cFound = Pending

\* background.js is not loaded
CacheIdle ==
    /\ certificateCache = <<>>
    /\ handlers = <<>>
    /\ closedTabs = {}

\* the variables of Spec outside Spec: no call is made
CallOff ==
    /\ certData = [certificates |-> <<>>, scts |-> <<>>]
    /\ pc = "off"
    /\ cur = 0
    /\ results = <<>>
    /\ summary = NoSummary
    /\ modifiedTBS = <<>>
    /\ issuerKeyHash = <<>>
    /\ leafHash = NoHash
    /\ head = NoHead
    /\ requests = <<>>
    /\ leafInputs = {}
    /\ hashedNodes = {}
    /\ logIndex = 0
    /\ fetchFailed = <<>>
    /\ ownVerdict = <<>>
    /\ silent = {}

Init ==
    /\ RemoveIdle /\ LengthIdle /\ LeafIdle /\ ParserIdle
    /\ ExtractIdle /\ EncodeIdle /\ ContainsIdle /\ CacheIdle
    /\ certData \in [certificates : CertificateChains, scts : SctLists]
    /\ pc = "idle"
    /\ cur = 0
    /\ results = <<>>
    /\ summary = NoSummary
    /\ modifiedTBS = <<>>
    /\ issuerKeyHash = <<>>
    /\ leafHash = NoHash
    /\ head = NoHead
    /\ requests = <<>>
    /\ leafInputs = {}
    /\ hashedNodes = {}
    /\ logIndex = 0
    /\ fetchFailed = <<>>
    /\ ownVerdict = <<>>
    /\ silent \in SUBSET {k \in 1..Len(certData.scts) :
                            certData.scts[k].logState \in {"usable", "retired", "readonly"}}
    /\ MerkleIdle

Next ==
    \/ Call /\ UNCHANGED <<mvars, fvars>>
    \/ SthResponse /\ UNCHANGED <<mvars, fvars>>
    \/ ProofResponse /\ UNCHANGED <<mvars, fvars>>

vars == <<ovars, mvars, fvars>>

Spec == Init /\ [][Next]_vars

----------------------------------------------------------------------------
(* Specification SpecMerkle: the proof check of verifySCT as a function of *)
(* its inputs.                                                             *)

MInit ==
    /\ mLeaf \in 0..(MaxTreeSize - 1)
    /\ mProof \in [leaf_index : 0..MaxLeafIndex,
                   has_path : {TRUE},
                   audit_path : SeqsUpTo(SiblingPool, MaxPathLen)]
    \* the root of the tree of that size, the root of the tree one entry
    \* larger, or the digest of nothing
    /\ \E n \in 1..MaxTreeSize :
          mHead \in [treeSize : {n},
                     rootHash : {TestRoot(n), TestRoot(n + 1), Foreign(0)}]
    /\ mVerdict = "pending"
    /\ CallOff
    /\ ExtractIdle /\ EncodeIdle /\ ContainsIdle /\ CacheIdle
    /\ RemoveIdle /\ LengthIdle /\ LeafIdle /\ ParserIdle

MVerify ==
    /\ mVerdict = "pending"
    /\ mVerdict' = CheckProof(TestLeafHash(mLeaf), mProof,
                              mHead.rootHash, mHead.treeSize).outcome
    /\ UNCHANGED <<mLeaf, mProof, mHead>>
    /\ UNCHANGED <<ovars, fvars>>

MNext == MVerify

SpecMerkle == MInit /\ [][MNext]_vars

----------------------------------------------------------------------------
(* Specification SpecRemove: removeSCTExtension applied to a               *)
(* TBSCertificate, and applied again to what it returned.                  *)

MaxExtensions == 3   \* elements of the extensions list

\* DER definite length in its minimal form, and a DER element
DerLength(n) ==
    IF n < 128 THEN <<n>>
    ELSE IF n < 256 THEN <<129, n>>
    ELSE <<130, n \div 256, n % 256>>

Der(tag, content) == <<tag>> \o DerLength(Len(content)) \o content

RECURSIVE Concat(_)
Concat(seqs) == IF seqs = <<>> THEN <<>> ELSE Head(seqs) \o Concat(Tail(seqs))

\* an extension whose value is 128 bytes long, so that its length and the
\* lengths around it take the long form
LongExtension == Der(48, <<6, 3, 85, 29, 32>> \o Der(4, [k \in 1..128 |-> 7]))

ExtensionElements == {OtherExtension(15), OtherExtension(19), SctExtension, LongExtension}

\* the fields of a TBSCertificate before its extensions: a serial number; a
\* serial number with the byte 0xA3 in it; a serial number and a BIT STRING
\* (a public key) whose bits read A3 10 30 0E <SCT OID> 05 00
SerialNumber == <<2, 1, 5>>
SerialWithA3 == <<2, 3, 0, 163, 1>>
KeyWithLookalike == Der(3, <<0, 163, 16, 48, 14>> \o SCT_OID \o <<5, 0>>)

FieldsBeforeExtensions ==
    {SerialNumber, SerialWithA3, SerialNumber \o KeyWithLookalike}

\* the DER encoding of a TBSCertificate with these fields and extensions
EncodeTbs(fields, hasExtensions, extensions) ==
    Der(48, fields \o (IF hasExtensions THEN Der(163, Der(48, Concat(extensions)))
                                        ELSE <<>>))

Tbs(fields, hasExtensions, extensions, wellFormed, bytes) ==
    [fields |-> fields, hasExtensions |-> hasExtensions, extensions |-> extensions,
     wellFormed |-> wellFormed, bytes |-> bytes]

\* well-formed TBSCertificates with and without an extensions field, and
\* the same bytes under the tag of a SET
TbsInputs ==
    LET shapes == {<<f, TRUE, e>> : f \in FieldsBeforeExtensions,
                                    e \in SeqsUpTo(ExtensionElements, MaxExtensions)}
                    \cup {<<f, FALSE, <<>> >> : f \in FieldsBeforeExtensions}
    IN  {Tbs(x[1], x[2], x[3], TRUE, EncodeTbs(x[1], x[2], x[3])) : x \in shapes}
          \cup {Tbs(x[1], x[2], x[3], FALSE, <<49>> \o Tail(EncodeTbs(x[1], x[2], x[3]))) :
                   x \in {y \in shapes : Len(y[3]) <= 1}}

RInit ==
    /\ rTbs \in TbsInputs
    /\ rOnce = Pending
    /\ rTwice = Pending
    /\ CallOff
    /\ ExtractIdle /\ EncodeIdle /\ ContainsIdle /\ CacheIdle
    /\ MerkleIdle /\ LengthIdle /\ LeafIdle /\ ParserIdle

RemoveOnce ==
    /\ rOnce = Pending
    /\ rOnce' = removeSCTExtension(rTbs.bytes)
    /\ UNCHANGED <<rTbs, rTwice>>
    /\ UNCHANGED <<ovars, mvars, lvars, bvars, pvars, gvars>>

RemoveTwice ==
    /\ rOnce # Pending
    /\ ~rOnce.null
    /\ rTwice = Pending
    /\ rTwice' = removeSCTExtension(rOnce.bytes)
    /\ UNCHANGED <<rTbs, rOnce>>
    /\ UNCHANGED <<ovars, mvars, lvars, bvars, pvars, gvars>>

RNext == RemoveOnce \/ RemoveTwice

SpecRemove == RInit /\ [][RNext]_vars

----------------------------------------------------------------------------
(* Specification SpecParser: parseSCTFromCertificate applied to a          *)
(* certificate.                                                            *)

MaxEntries == 2      \* entries of the SCT list

Uint16(n) == <<n \div 256, n % 256>>

\* an entry of the SCT list, with the names its algorithm bytes stand for
SctEntry(version, id, timestamp, extensions, hashAlg, hashName, sigAlg, sigName, signature) ==
    [version |-> version, logId |-> [k \in 1..HASH_SIZE |-> id],
     timestamp |-> timestamp, extensions |-> extensions,
     hashAlg |-> hashAlg, hashName |-> hashName,
     sigAlg |-> sigAlg, sigName |-> sigName, signature |-> signature]

\* timestamps: 1.7e12 (a date in 2023), 0, 8.64e15, 8.64e15 + 1, 2^64 - 1
SaneEntries ==
    { SctEntry(0, 17, <<0, 0, 1, 139, 207, 229, 104, 0>>, <<>>,
               4, <<"sha256">>, 3, <<"ecdsa">>, <<48, 1, 2>>),
      SctEntry(1, 34, <<0, 0, 0, 0, 0, 0, 0, 0>>, <<1, 2>>,
               9, <<"unknown", 9>>, 7, <<"unknown", 7>>, <<>>),
      SctEntry(0, 51, <<0, 30, 178, 8, 194, 220, 0, 0>>, <<>>,
               0, <<"none">>, 1, <<"rsa">>, <<9>>) }

LateEntries ==
    { SctEntry(0, 68, <<0, 30, 178, 8, 194, 220, 0, 1>>, <<>>,
               4, <<"sha256">>, 3, <<"ecdsa">>, <<48, 1, 2>>),
      SctEntry(0, 85, <<255, 255, 255, 255, 255, 255, 255, 255>>, <<>>,
               4, <<"sha256">>, 3, <<"ecdsa">>, <<48, 1, 2>>) }

\* the TLS encoding of an entry: its body, and the body after its length
EntryBody(e) ==
    <<e.version>> \o e.logId \o e.timestamp
      \o Uint16(Len(e.extensions)) \o e.extensions
      \o <<e.hashAlg, e.sigAlg>>
      \o Uint16(Len(e.signature)) \o e.signature

EncodeEntry(e) == Uint16(Len(EntryBody(e))) \o EntryBody(e)

\* a trailing entry that is not well-formed: its declared length runs past
\* the buffer; it is shorter than its fixed fields
TrailingBytes(trailing) ==
    CASE trailing = "pastBuffer" -> <<127, 255>> \o EntryBody(CHOOSE e \in SaneEntries : e.version = 1)
      [] trailing = "short" -> Uint16(10) \o <<0, 17, 17, 17, 17, 17, 17, 17, 17, 17>>
      [] OTHER -> <<>>

\* a certificate whose SCT extension, under the OID oid, holds these entries
\* in a double-wrapped OCTET STRING; tail is what follows the TBSCertificate
CertificateWith(oid, entries, trailing, tail) ==
    LET list == Concat([k \in 1..Len(entries) |-> EncodeEntry(entries[k])])
                  \o TrailingBytes(trailing)
        extension == Der(48, oid \o Der(4, Der(4, Uint16(Len(list)) \o list)))
        tbs == Der(48, SerialNumber \o Der(163, Der(48, OtherExtension(15) \o extension)))
    IN  Der(48, tbs \o tail)

\* signatureAlgorithm and signatureValue of the certificate
ShortTail == <<48, 0, 3, 1, 0>>
LongTail == <<48, 0>> \o Der(3, [k \in 1..64 |-> 0])

\* the OID with its last byte changed
OtherOID == SubSeq(SCT_OID, 1, Len(SCT_OID) - 1) \o <<3>>

ParserInput(kind, entries, trailing, bytes) ==
    [kind |-> kind, entries |-> entries, trailing |-> trailing, bytes |-> bytes]

Prefixes(bytes) == {SubSeq(bytes, 1, n) : n \in 0..Len(bytes)}

ParserInputs ==
    LET lists == SeqsUpTo(SaneEntries \cup LateEntries, MaxEntries)
        sane == SeqsUpTo(SaneEntries, MaxEntries)
        two == CHOOSE l \in sane : Len(l) = 2 /\ l[1].version = 0 /\ l[2].version = 1
    IN  {ParserInput("wellFormed", l, "none", CertificateWith(SCT_OID, l, "none", ShortTail)) :
            l \in lists}
        \cup {ParserInput("malformedTail", l, t, CertificateWith(SCT_OID, l, t, tail)) :
                 l \in sane, t \in {"pastBuffer", "short"}, tail \in {ShortTail, LongTail}}
        \cup {ParserInput("noOid", l, "none", CertificateWith(OtherOID, l, "none", ShortTail)) :
                 l \in sane}
        \cup {ParserInput("cut", two, "none", b) :
                 b \in Prefixes(CertificateWith(SCT_OID, two, "none", ShortTail))}
        \cup {ParserInput("cut", <<two[1]>>, "short", b) :
                 b \in Prefixes(CertificateWith(SCT_OID, <<two[1]>>, "short", ShortTail))}

PInit ==
    /\ pCert \in ParserInputs
    /\ pOut = Pending
    /\ CallOff
    /\ ExtractIdle /\ EncodeIdle /\ ContainsIdle /\ CacheIdle
    /\ MerkleIdle /\ RemoveIdle /\ LengthIdle /\ LeafIdle

Parse ==
    /\ pOut = Pending
    /\ pOut' = parseSCTFromCertificate(pCert.bytes)
    /\ UNCHANGED pCert
    /\ UNCHANGED <<ovars, mvars, rvars, lvars, bvars, gvars>>

PNext == Parse

SpecParser == PInit /\ [][PNext]_vars

----------------------------------------------------------------------------
(* Specification SpecLeaf: buildPrecertEntry applied to an SCT, an issuer  *)
(* key hash and a TBSCertificate.                                          *)

\* timestamps below 2^64: every combination of a low, a middle and a high
\* limb among the smallest, the largest (2^24 - 1, 2^24 - 1, 2^16 - 1) and
\* one more value
TimestampSamples ==
    {<<lo, mid, hi>> : lo \in {0, 6809600, 16777215},
                       mid \in {0, 101327, 16777215},
                       hi \in {0, 30, 65535}}

\* 32-byte issuer key hashes
KeyHashSamples == {[k \in 1..HASH_SIZE |-> 170], [k \in 1..HASH_SIZE |-> 7 * k]}

\* TBSCertificates of 0 to 65536 bytes
TbsSamples ==
    {[k \in 1..n |-> (k * 37) % 256] : n \in {0, 1, 255, 256, 65536}}

BInit ==
    /\ bSct \in [timestamp : TimestampSamples]
    /\ bKey \in KeyHashSamples
    /\ bTbs \in TbsSamples
    /\ bLeaf = Pending
    /\ CallOff
    /\ ExtractIdle /\ EncodeIdle /\ ContainsIdle /\ CacheIdle
    /\ MerkleIdle /\ RemoveIdle /\ LengthIdle /\ ParserIdle

Build ==
    /\ bLeaf = Pending
    /\ bLeaf' = buildPrecertEntry(bSct, bKey, bTbs)
    /\ UNCHANGED <<bSct, bKey, bTbs>>
    /\ UNCHANGED <<ovars, mvars, rvars, lvars, pvars, gvars>>

BNext == Build

SpecLeaf == BInit /\ [][BNext]_vars

----------------------------------------------------------------------------
(* Specification SpecLength: encodeASN1Length applied to a length, and     *)
(* parseASN1Length applied at position 0 of what it returned.              *)

MaxEnumeratedLength == 300   \* every length up to here is tried

\* lengths below 2^24: the small ones, and the ones around each power of 2
LengthSamples ==
    0..MaxEnumeratedLength
      \cup UNION {{Pow2(k) - 1, Pow2(k), Pow2(k) + 1} : k \in 7..23}
      \cup {Pow2(24) - 1}

LInit ==
    /\ lN \in LengthSamples
    /\ lEncoded = <<>>
    /\ lParsed = Pending
    /\ CallOff
    /\ ExtractIdle /\ EncodeIdle /\ ContainsIdle /\ CacheIdle
    /\ MerkleIdle /\ RemoveIdle /\ LeafIdle /\ ParserIdle

EncodeLength ==
    /\ lEncoded = <<>>
    /\ lEncoded' = encodeASN1Length(lN)
    /\ UNCHANGED <<lN, lParsed>>
    /\ UNCHANGED <<ovars, mvars, rvars, bvars, pvars, gvars>>

ParseLength ==
    /\ lEncoded # <<>>
    /\ lParsed = Pending
    /\ lParsed' = parseASN1Length(lEncoded, 0)
    /\ UNCHANGED <<lN, lEncoded>>
    /\ UNCHANGED <<ovars, mvars, rvars, bvars, pvars, gvars>>

LNext == EncodeLength \/ ParseLength

SpecLength == LInit /\ [][LNext]_vars

----------------------------------------------------------------------------
(* Specification SpecExtract: parseASN1Length applied at position 1 of a    *)
(* certificate, and extractTBSCertificate applied to the certificate.      *)

\* a certificate whose TBSCertificate is longer than 127 bytes, so that both
\* lengths take the long form
LongCert == Der(48, EncodeTbs(SerialNumber, TRUE, <<LongExtension>>) \o ShortTail)

\* whole certificates, and every buffer that ends before the end of one
ExtractInputs ==
    Prefixes(CertWithSCT) \cup Prefixes(LongCert)
      \cup {CertNoExtensions, CertBadOuterTag, CertBadInnerTag}

XInit ==
    /\ xCert \in ExtractInputs
    /\ xLength = Pending
    /\ xTbs = Pending
    /\ CallOff
    /\ MerkleIdle /\ RemoveIdle /\ LengthIdle /\ LeafIdle /\ ParserIdle
    /\ EncodeIdle /\ ContainsIdle /\ CacheIdle

ParseOuterLength ==
    /\ xLength = Pending
    /\ xLength' = parseASN1Length(xCert, 1)
    /\ UNCHANGED <<xCert, xTbs>>
    /\ UNCHANGED <<ovars, mvars, rvars, lvars, bvars, pvars, evars, cvars, kvars>>

ExtractTbs ==
    /\ xTbs = Pending
    /\ xTbs' = extractTBSCertificate(xCert)
    /\ UNCHANGED <<xCert, xLength>>
    /\ UNCHANGED <<ovars, mvars, rvars, lvars, bvars, pvars, evars, cvars, kvars>>

XNext == ParseOuterLength \/ ExtractTbs

SpecExtract == XInit /\ [][XNext]_vars

----------------------------------------------------------------------------
(* Specification SpecEncode: encodeBigEndian applied to a non-negative      *)
(* integer and a number of bytes.                                          *)

\* values around every power of 2 below 2^31, and the timestamps up to
\* 2^64 - 1
EncodeValues ==
    {BigInt(v) : v \in UNION {{Pow2(k) - 1, Pow2(k), Pow2(k) + 1} : k \in 0..30}}
      \cup TimestampSamples

EInit ==
    /\ eValue \in EncodeValues
    /\ eWidth \in 1..8
    /\ eBytes = Pending
    /\ CallOff
    /\ MerkleIdle /\ RemoveIdle /\ LengthIdle /\ LeafIdle /\ ParserIdle
    /\ ExtractIdle /\ ContainsIdle /\ CacheIdle

\* encodeBigEndian has no throw statement, and BigInt, >> and & do not throw
\* on a non-negative integer: the call returns its array
Encode ==
    /\ eBytes = Pending
    /\ eBytes' = [threw |-> FALSE, bytes |-> encodeBigEndian(eValue, eWidth)]
    /\ UNCHANGED <<eValue, eWidth>>
    /\ UNCHANGED <<ovars, mvars, rvars, lvars, bvars, pvars, xvars, cvars, kvars>>

ENext == Encode

SpecEncode == EInit /\ [][ENext]_vars

----------------------------------------------------------------------------
(* Specification SpecContains: containsOID applied to a buffer, a range    *)
(* and a byte pattern.                                                     *)

MaxBufferLen == 4    \* bytes of the buffer searched

\* patterns of one and two bytes
OidSamples == {<<6>>, <<6, 10>>}

CInit ==
    /\ cBytes \in SeqsUpTo({6, 10}, MaxBufferLen)
    /\ cOid \in OidSamples
    /\ cStart \in 0..Len(cBytes)
    /\ cEnd \in cStart..Len(cBytes)
    /\ cFound = Pending
    /\ CallOff
    /\ MerkleIdle /\ RemoveIdle /\ LengthIdle /\ LeafIdle /\ ParserIdle
    /\ ExtractIdle /\ EncodeIdle /\ CacheIdle

Contains ==
    /\ cFound = Pending
    /\ cFound' = [found |-> containsOID(cBytes, cStart, cEnd, cOid)]
    /\ UNCHANGED <<cBytes, cStart, cEnd, cOid>>
    /\ UNCHANGED <<ovars, mvars, rvars, lvars, bvars, pvars, xvars, evars, kvars>>

CNext == Contains

SpecContains == CInit /\ [][CNext]_vars

----------------------------------------------------------------------------
(* Specification SpecCache (background.js): the onHeadersReceived listener, *)
(* an async function that awaits getSecurityInfo and then                  *)
(* verifyCertificateSCTs, and the tabs.onRemoved listener, on the shared   *)
(* certificateCache.  A listener runs without interruption up to its next  *)
(* await; between two awaits any other listener may run.                   *)

MaxTabs == 2         \* tab ids
MaxResponses == 3    \* responses received in all

Tabs == 1..MaxTabs

\* certificateCache.get(tabId): undefined, or the certData object built by
\* the invocation for the h-th response
NoEntry == [entry |-> FALSE]
Entry(h) == [entry |-> TRUE, response |-> h]

\* an invocation of the listener: at is where it stands ("getSecurityInfo",
\* "verifyCertificateSCTs": awaiting that call; "done": returned);
\* concurrent records that an earlier invocation for the same tab had not
\* returned when this one began; stored that it reached line 73;
\* sctVerification that its certData got the field of line 85
Handler(tabId, at, concurrent) ==
    [tabId |-> tabId, at |-> at, concurrent |-> concurrent, stored |-> FALSE,
     sctVerification |-> FALSE]

KInit ==
    /\ certificateCache = [t \in Tabs |-> NoEntry]
    /\ handlers = <<>>
    /\ closedTabs = {}
    /\ CallOff
    /\ MerkleIdle /\ RemoveIdle /\ LengthIdle /\ LeafIdle /\ ParserIdle
    /\ ExtractIdle /\ EncodeIdle /\ ContainsIdle

\* lines 33-60: a response arrives for an open tab; a response that is not
\* a main-frame HTTPS response is left alone (lines 35-45), otherwise
\* getSecurityInfo is called and awaited
HeadersReceived ==
    /\ Len(handlers) < MaxResponses
    /\ \E t \in Tabs \ closedTabs : \E mainFrameHttps \in BOOLEAN :
          handlers' = Append(handlers,
              Handler(t,
                      IF mainFrameHttps THEN "getSecurityInfo" ELSE "done",
                      mainFrameHttps
                        /\ \E k \in 1..Len(handlers) :
                              handlers[k].tabId = t /\ handlers[k].at # "done"))
    /\ UNCHANGED <<certificateCache, closedTabs>>
    /\ UNCHANGED <<ovars, mvars, rvars, lvars, bvars, pvars, xvars, evars, cvars>>

\* lines 52-78: getSecurityInfo settles.  It rejects (caught at line 90),
\* gives no security info (lines 62-65), gives a certificate on which
\* extractCertificateData throws (caught at line 90), or gives security
\* info: then certData is stored under the tab id (line 73) and
\* verifyCertificateSCTs is called and awaited
SecurityInfoSettled ==
    \E h \in 1..Len(handlers) :
        /\ handlers[h].at = "getSecurityInfo"
        /\ \E outcome \in {"rejected", "none", "extractThrew", "info"} :
              IF outcome = "info"
              THEN /\ certificateCache' =
                         [certificateCache EXCEPT ![handlers[h].tabId] = Entry(h)]
                   /\ handlers' = [handlers EXCEPT ![h].at = "verifyCertificateSCTs",
                                                    ![h].stored = TRUE]
              ELSE /\ handlers' = [handlers EXCEPT ![h].at = "done"]
                   /\ UNCHANGED certificateCache
        /\ UNCHANGED closedTabs
        /\ UNCHANGED <<ovars, mvars, rvars, lvars, bvars, pvars, xvars, evars, cvars>>

\* lines 78-92: verifyCertificateSCTs settles; its result is put on certData
\* (line 85), an exception is caught (line 90)
VerificationSettled ==
    \E h \in 1..Len(handlers) :
        /\ handlers[h].at = "verifyCertificateSCTs"
        /\ \E threw \in BOOLEAN :
              handlers' = [handlers EXCEPT ![h].at = "done",
                                           ![h].sctVerification = ~threw]
        /\ UNCHANGED <<certificateCache, closedTabs>>
        /\ UNCHANGED <<ovars, mvars, rvars, lvars, bvars, pvars, xvars, evars, cvars>>

\* lines 244-247: a tab is closed
TabRemoved ==
    \E t \in Tabs \ closedTabs :
        /\ certificateCache' = [certificateCache EXCEPT ![t] = NoEntry]
        /\ closedTabs' = closedTabs \cup {t}
        /\ UNCHANGED handlers
        /\ UNCHANGED <<ovars, mvars, rvars, lvars, bvars, pvars, xvars, evars, cvars>>

KNext ==
    \/ HeadersReceived
    \/ SecurityInfoSettled
    \/ VerificationSettled
    \/ TabRemoved

SpecCache == KInit /\ [][KNext]_vars

----------------------------------------------------------------------------
(* Claims about the proof check, under SpecMerkle *)

\* the check has run on the 4-entry tree with its true root and the index of
\* the supplied leaf
OnFourLeafTree ==
    /\ mVerdict # "pending"
    /\ mHead.treeSize = 4
    /\ mHead.rootHash = TestRoot(4)
    /\ mLeaf \in 0..3
    /\ mProof.leaf_index = mLeaf

\* p is q with the entry at exactly one position replaced by another value
OneSiblingChanged(p, q) ==
    /\ Len(p) = Len(q)
    /\ \E k \in 1..Len(q) :
          /\ p[k] # q[k]
          /\ \A j \in 1..Len(q) : j # k => p[j] = q[j]

\* C1: on the 4-entry tree with its true root, the correct two-entry audit
\* path of every leaf index 0..3 verifies true.
C1_CorrectPathVerifies ==
    (OnFourLeafTree /\ mProof.audit_path = TestPath(mLeaf, 4)) => mVerdict = "true"

C1_Witness ==
    /\ OnFourLeafTree
    /\ mLeaf = 3
    /\ mProof.audit_path = TestPath(3, 4)
    /\ Len(mProof.audit_path) = 2
    /\ mVerdict = "true"

\* C2: on the 4-entry tree with its true root, the correct audit path with
\* any one sibling replaced by a different 32-byte value verifies false.
C2_ChangedSiblingRejected ==
    (OnFourLeafTree /\ OneSiblingChanged(mProof.audit_path, TestPath(mLeaf, 4)))
        => mVerdict = "false"

C2_Witness ==
    /\ OnFourLeafTree
    /\ mLeaf = 2
    /\ OneSiblingChanged(mProof.audit_path, TestPath(2, 4))
    /\ mProof.audit_path[2] # TestPath(2, 4)[2]
    /\ mVerdict = "false"

\* C3: on the 4-entry tree with its true root, the correct audit path with
\* its last entry removed, or with one more entry appended, verifies false.
C3_WrongLengthRejected ==
    LET good == TestPath(mLeaf, 4)
        path == mProof.audit_path
    IN  (/\ OnFourLeafTree
         /\ \/ path = SubSeq(good, 1, Len(good) - 1)
            \/ Len(path) = Len(good) + 1 /\ SubSeq(path, 1, Len(good)) = good)
        => mVerdict = "false"

C3_Witness ==
    /\ OnFourLeafTree
    /\ mLeaf = 1
    /\ Len(mProof.audit_path) = 3
    /\ SubSeq(mProof.audit_path, 1, 2) = TestPath(1, 4)
    /\ mVerdict = "false"

\* C4: a proof whose leaf_index is greater than or equal to the tree head's
\* tree_size is scored verified = false, whatever the audit path and root.
C4_IndexBeyondTreeRejected ==
    (mVerdict # "pending" /\ mProof.leaf_index >= mHead.treeSize) => mVerdict = "false"

----------------------------------------------------------------------------
(* Claims about verifyCertificateSCTs, under Spec *)

Called == pc \in {"sth", "proof", "returned", "threw"}

\* the inputs the call requires: a leaf and an issuer certificate with raw
\* bytes, and at least one parsed SCT
InputsPresent ==
    /\ Len(certData.certificates) >= 2
    /\ certData.certificates[1].hasRaw
    /\ certData.certificates[2].hasRaw
    /\ Len(certData.scts) >= 1

\* C5: every byte string hashed as a leaf starts with 0x00 and every byte
\* string hashed as an inner node starts with 0x01, so no leaf-hash input is a
\* node-hash input.
C5_DomainSeparation ==
    /\ \A x \in leafInputs : x.val[1] = 0
    /\ \A y \in hashedNodes : y.val[1] = 1
    /\ leafInputs \cap hashedNodes = {}

C5_Witness ==
    /\ Cardinality(leafInputs) = 2
    /\ Cardinality(hashedNodes) >= 2

\* C6: when a get-sth or get-proof-by-hash request of an SCT returns a
\* non-success status or fails in transport, that SCT gets verified = false
\* and no exception is raised for it; every SCT that has been verified has the
\* result of its own exchange, and a call that returns has verified them all.
C6_FetchFailureIsLocal ==
    /\ \A k \in 1..Len(fetchFailed) :
          fetchFailed[k] => (k <= Len(results) /\ ~results[k].verified)
    /\ \A k \in 1..Len(ownVerdict) :
          k <= Len(results) /\ results[k].verified = ownVerdict[k]
    /\ (pc = "returned" /\ Len(fetchFailed) > 0) => Len(results) = Len(certData.scts)

\* two SCTs, both proof requests issued and failed: total 2, verified 0, failed 2
C6_Witness ==
    /\ pc = "returned"
    /\ Len(certData.scts) = 2
    /\ \A k \in 1..2 : \E j \in 1..Len(requests) :
          requests[j].sct = k /\ requests[j].kind = "get-proof-by-hash"
    /\ fetchFailed = <<TRUE, TRUE>>
    /\ summary.total = 2 /\ summary.verified = 0 /\ summary.failed = 2

\* C7: whatever a log returns for an SCT, no exception leaves
\* verifyCertificateSCTs while an SCT is being verified.
C7_NoExceptionFromAnSCT == ~(pc = "threw" /\ cur >= 1)

\* C8: the call returns the zero-result whenever certData has fewer than 2
\* certificates, or certificate 0 or 1 has no raw bytes, or there is no SCT.
C8_ZeroResultOnMissingInputs ==
    (Called /\ ~InputsPresent) => (pc = "returned" /\ summary = ZeroResult)

C8_Witness ==
    /\ pc = "returned"
    /\ Len(certData.certificates) = 2
    /\ certData.certificates[1].hasRaw
    /\ ~certData.certificates[2].hasRaw
    /\ certData.certificates[2].hasDigest
    /\ Len(certData.scts) = 2
    /\ summary = ZeroResult

\* C9: a returned summary has total = length of results = verified + failed,
\* verified = number of results flagged verified, and, when the inputs are
\* present and the reconstruction succeeds, one result per SCT in input order.
C9_SummaryConsistent ==
    pc = "returned" =>
        /\ summary.total = Len(summary.results)
        /\ summary.total = summary.verified + summary.failed
        /\ summary.verified =
             Cardinality({k \in 1..Len(summary.results) : summary.results[k].verified})
        /\ (InputsPresent /\ ~ModifiedTBS(certData).null) =>
              /\ Len(summary.results) = Len(certData.scts)
              /\ \A k \in 1..Len(certData.scts) :
                    summary.results[k].sct = certData.scts[k]

C9_Witness ==
    /\ pc = "returned"
    /\ summary.total = 2
    /\ summary.verified = 1
    /\ summary.failed = 1
    /\ summary.results[2].verified

\* the leaf certificates whose structure does not decode: outer or inner tag
\* not SEQUENCE, an extensions element that is not a SEQUENCE, a declared
\* length running past the buffer
StructuralDecodeFailure(der) ==
    der \in {CertBadOuterTag, CertBadInnerTag, CertBadExtension, CertTruncated}

\* C10: a structural decode failure of the leaf certificate is never reported
\* as the zero-result of "nothing to verify", and no SCT is verified against
\* the bytes of the partially decoded structure.
C10_DecodeFailureSurfaced ==
    (Called /\ InputsPresent /\ StructuralDecodeFailure(certData.certificates[1].rawDER))
        => (~(pc = "returned" /\ summary = ZeroResult) /\ requests = <<>>)

----------------------------------------------------------------------------
(* Claims about removeSCTExtension, under SpecRemove *)

\* the byte string holds the SCT OID encoding somewhere
HoldsSctOid(bytes) ==
    \E i \in 1..(Len(bytes) - Len(SCT_OID) + 1) :
        SubSeq(bytes, i, i + Len(SCT_OID) - 1) = SCT_OID

\* what the reconstruction of a well-formed TBSCertificate is to return: the
\* input when no extensions field holds the SCT OID, otherwise the encoding
\* of the same fields with the extension elements that do not hold the OID
Reconstructed(t) ==
    IF ~t.hasExtensions \/ ~HoldsSctOid(Concat(t.extensions)) THEN t.bytes
    ELSE EncodeTbs(t.fields, TRUE,
                   SelectSeq(t.extensions, LAMBDA e : ~HoldsSctOid(e)))

\* C11: removeSCTExtension is idempotent: whenever it returns bytes for a
\* TBSCertificate, applying it to those bytes returns the same bytes.
C11_RemoveIdempotent == rTwice # Pending => rTwice = rOnce

\* C12: for a well-formed TBSCertificate removeSCTExtension returns the input
\* when no extensions field holds the SCT OID, and otherwise the same
\* TBSCertificate with exactly the extension elements that do not hold the
\* OID, in order, all lengths recomputed and every other byte preserved.
C12_RemovesOnlyTheSctExtension ==
    (rOnce # Pending /\ rTbs.wellFormed) => rOnce = NonNull(Reconstructed(rTbs))

----------------------------------------------------------------------------
(* Claims about parseSCTFromCertificate, under SpecParser *)

\* the bytes a string of hexadecimal digits stands for
FromHex(digits) ==
    [k \in 1..(Len(digits) \div 2) |-> digits[2 * k - 1] * 16 + digits[2 * k]]

\* the value of 8 big-endian bytes, in limbs of 24 bits
WideOfBytes(b) ==
    <<b[6] * 65536 + b[7] * 256 + b[8], b[3] * 65536 + b[4] * 256 + b[5], b[1] * 256 + b[2]>>

\* the record has the values of the entry
Matches(sct, e) ==
    /\ sct.version = e.version
    /\ Len(sct.logId) = 2 * Len(e.logId) /\ FromHex(sct.logId) = e.logId
    /\ sct.timestamp = WideOfBytes(e.timestamp)
    /\ sct.extensions = e.extensions
    /\ sct.signatureHashAlgorithm = e.hashName
    /\ sct.signatureAlgorithm = e.sigName
    /\ Len(sct.signature) = 2 * Len(e.signature) /\ FromHex(sct.signature) = e.signature
    /\ sct.origin = "embedded"

\* the entries before the first one whose timestamp is past the range of a date
RECURSIVE SanePrefix(_)
SanePrefix(entries) ==
    IF entries = <<>> \/ Head(entries) \notin SaneEntries THEN <<>>
    ELSE <<Head(entries)>> \o SanePrefix(Tail(entries))

Parsed == pOut # Pending

\* C13: parseSCTFromCertificate never raises, and when valid entries are
\* followed by an entry that is malformed, truncated or carries any 64-bit
\* timestamp, the valid earlier entries are still returned.
C13_NeverRaisesKeepsEarlier ==
    Parsed =>
        /\ ~pOut.threw
        /\ pCert.kind \in {"wellFormed", "malformedTail"} =>
              LET valid == SanePrefix(pCert.entries)
              IN  /\ Len(pOut.scts) >= Len(valid)
                  /\ \A k \in 1..Len(valid) : Matches(pOut.scts[k], valid[k])

\* C14: for a certificate with a well-formed double-wrapped list of k
\* entries, whatever their 8 timestamp bytes, exactly k records are returned,
\* in order, with the values of the entries and origin "embedded".
C14_WellFormedListParsed ==
    (Parsed /\ pCert.kind = "wellFormed") =>
        /\ ~pOut.threw
        /\ Len(pOut.scts) = Len(pCert.entries)
        /\ \A k \in 1..Len(pCert.entries) : Matches(pOut.scts[k], pCert.entries[k])

\* C15: for a byte sequence in which the SCT OID encoding does not occur,
\* parseSCTFromCertificate returns the empty list.
C15_NoOidNoScts ==
    (Parsed /\ ~HoldsSctOid(pCert.bytes)) => pOut = [threw |-> FALSE, scts |-> <<>>]

\* a certificate with a list of two entries under another OID
C15_Witness ==
    /\ Parsed
    /\ pCert.kind = "noOid"
    /\ Len(pCert.entries) = 2
    /\ ~HoldsSctOid(pCert.bytes)
    /\ pOut = [threw |-> FALSE, scts |-> <<>>]

\* C16: every record parseSCTFromCertificate returns has a logId of 32
\* bytes, 64 hexadecimal digits.
C16_LogIdIs32Bytes ==
    (Parsed /\ ~pOut.threw) =>
        \A k \in 1..Len(pOut.scts) : Len(pOut.scts[k].logId) = 2 * HASH_SIZE

\* a certificate cut short inside its second entry: the first is returned
C16_Witness ==
    /\ Parsed
    /\ pCert.kind = "cut"
    /\ Len(pCert.entries) = 2
    /\ ~pOut.threw
    /\ Len(pOut.scts) = 1
    /\ Len(pOut.scts[1].logId) = 2 * HASH_SIZE
    /\ FromHex(pOut.scts[1].logId) = pCert.entries[1].logId

----------------------------------------------------------------------------
(* Claims about buildPrecertEntry, under SpecLeaf *)

\* C17: for a timestamp below 2^64, a 32-byte issuer key hash and a
\* TBSCertificate of L < 2^24 bytes, buildPrecertEntry returns 49 + L bytes:
\* 00 00, the timestamp as 8 big-endian bytes, 00 01, the key hash, L as 3
\* big-endian bytes, the TBSCertificate, 00 00.
C17_LeafLayout ==
    bLeaf # Pending =>
        LET L == Len(bTbs)
        IN  /\ Len(bLeaf) = 49 + L
            /\ \A k \in 1..47 : bLeaf[k] \in 0..255
            /\ SubSeq(bLeaf, 1, 2) = <<0, 0>>
            /\ WideOfBytes(SubSeq(bLeaf, 3, 10)) = bSct.timestamp
            /\ SubSeq(bLeaf, 11, 12) = <<0, 1>>
            /\ SubSeq(bLeaf, 13, 44) = bKey
            /\ bLeaf[45] * 65536 + bLeaf[46] * 256 + bLeaf[47] = L
            /\ SubSeq(bLeaf, 48, 47 + L) = bTbs
            /\ SubSeq(bLeaf, 48 + L, 49 + L) = <<0, 0>>

\* a timestamp of 2^64 - 1 and a TBSCertificate of 65536 bytes
C17_Witness ==
    /\ bLeaf # Pending
    /\ bSct.timestamp = <<16777215, 16777215, 65535>>
    /\ Len(bTbs) = 65536
    /\ SubSeq(bLeaf, 3, 10) = <<255, 255, 255, 255, 255, 255, 255, 255>>
    /\ SubSeq(bLeaf, 45, 47) = <<1, 0, 0>>
    /\ Len(bLeaf) = 65585

----------------------------------------------------------------------------
(* Claims about the ASN.1 length codec, under SpecLength *)

\* C18: for 0 <= n < 2^24, parseASN1Length at position 0 of
\* encodeASN1Length(n) returns length n and nextPos the number of bytes
\* encodeASN1Length produced.
C18_LengthRoundTrip ==
    lParsed # Pending =>
        /\ ~lParsed.undef
        /\ lParsed.length = lN
        /\ lParsed.nextPos = Len(lEncoded)

\* the largest length, 2^24 - 1, takes the long form with three bytes
C18_Witness ==
    /\ lParsed # Pending
    /\ lN = 16777215
    /\ lEncoded = <<131, 255, 255, 255>>
    /\ lParsed.length = lN
    /\ lParsed.nextPos = 4

----------------------------------------------------------------------------
(* Claims about the requests of verifyCertificateSCTs, under Spec *)

LogStateOf(i) == certData.scts[i].logState

\* the directory states readonly (with or without a final tree head) and
\* retired
ReadonlyStates == {"readonly", "readonlyBad"}
ClosedStates == ReadonlyStates \cup {"retired"}

\* C19 as claimed: for an SCT whose log is readonly or retired the tree head
\* used is the log's final tree head and no get-sth request is issued for it;
\* get-sth is requested only for logs in another state.
C19_ClosedLogsUseFinalTreeHead ==
    /\ \A j \in 1..Len(requests) :
          requests[j].kind = "get-sth" => LogStateOf(requests[j].sct) \notin ClosedStates
    /\ (pc = "proof" /\ LogStateOf(cur) \in ClosedStates) => head = FinalTreeHead(leafHash)

\* C19 as amended: for an SCT whose log is readonly no get-sth request is
\* issued and its proof is requested against the log's final tree head; for
\* an SCT of a log in any other state, retired included, the proof is
\* requested only after a get-sth request for that SCT.
C19_ReadonlyLogsUseFinalTreeHead ==
    /\ \A j \in 1..Len(requests) :
          requests[j].kind = "get-sth" => LogStateOf(requests[j].sct) \notin ReadonlyStates
    /\ (pc = "proof" /\ LogStateOf(cur) \in ReadonlyStates) => head = FinalTreeHead(leafHash)
    /\ \A j \in 1..Len(requests) :
          (requests[j].kind = "get-proof-by-hash"
             /\ LogStateOf(requests[j].sct) \notin ReadonlyStates)
            => \E k \in 1..(j - 1) : requests[k] = Request(requests[j].sct, "get-sth")

\* a retired log was asked for its tree head and its proof, and the proof of
\* a readonly log is awaited against the final tree head
C19_Witness ==
    /\ Len(certData.scts) = 2
    /\ LogStateOf(1) = "retired"
    /\ LogStateOf(2) = "readonly"
    /\ pc = "proof"
    /\ cur = 2
    /\ [j \in 1..Len(requests) |-> <<requests[j].sct, requests[j].kind>>]
          = <<<<1, "get-sth">>, <<1, "get-proof-by-hash">>, <<2, "get-proof-by-hash">>>>
    /\ head = FinalTreeHead(leafHash)

\* C20: every request carries a timeout, so a request a log never answers is
\* abandoned: while a request is outstanding the call always has a step to
\* take, also when the log stays silent.
C20_SilentLogAbandoned ==
    pc \in {"sth", "proof"} => ENABLED Next

RequestsOf(i, kind) ==
    {j \in 1..Len(requests) : requests[j].sct = i /\ requests[j].kind = kind}

\* C21: within one call, at most one get-sth request and at most one
\* get-proof-by-hash request are issued for each SCT; a request that failed
\* is never issued again.
C21_NoRequestRepeated ==
    \A i \in 1..Len(certData.scts) :
        /\ Cardinality(RequestsOf(i, "get-sth")) <= 1
        /\ Cardinality(RequestsOf(i, "get-proof-by-hash")) <= 1

\* the get-sth request of the first SCT failed and the proof request of the
\* second failed: three requests in all, and the call returned
C21_Witness ==
    /\ pc = "returned"
    /\ Len(certData.scts) = 2
    /\ fetchFailed = <<TRUE, TRUE>>
    /\ Len(requests) = 3
    /\ Cardinality(RequestsOf(1, "get-sth")) = 1
    /\ RequestsOf(1, "get-proof-by-hash") = {}
    /\ Cardinality(RequestsOf(2, "get-proof-by-hash")) = 1

\* C22: with the inputs present and the precertificate reconstructed, the
\* issuer key hash is obtained whether or not the issuer certificate carries
\* a precomputed SubjectPublicKeyInfo digest (computed locally without it),
\* the verification of the SCTs proceeds, and a supplied digest is the value
\* used.
C22_IssuerKeyHashWithOrWithoutDigest ==
    (Called /\ InputsPresent /\ ~ModifiedTBS(certData).null) =>
        /\ ~(pc = "threw" /\ cur = 0)
        /\ Len(issuerKeyHash) = HASH_SIZE
        /\ certData.certificates[2].hasDigest => issuerKeyHash = IssuerDigest

\* a step that scores an SCT verified = true
ScoresVerified ==
    /\ Len(results') = Len(results) + 1
    /\ results'[Len(results')].verified

\* a step that issues a get-proof-by-hash request
IssuesProofRequest ==
    /\ Len(requests') = Len(requests) + 1
    /\ requests'[Len(requests')].kind = "get-proof-by-hash"

\* the root recomputed in the step: the leaf hash for an empty audit path,
\* otherwise the digest of a node hashed in the step
RecomputedIn(root, leaf, nodes) ==
    \/ nodes = {} /\ bytesEqual(leaf, root)
    \/ \E x \in nodes : bytesEqual(SHA256(x), root)

VerifiedOnlyAgainstObtainedHead ==
    /\ ScoresVerified =>
          /\ pc = "proof"
          /\ head # NoHead
          /\ requests[Len(requests)] = ProofRequest(cur, leafHash, head.treeSize)
          /\ ~fetchFailed'[Len(fetchFailed')]
          /\ RecomputedIn(head.rootHash, leafHash, hashedNodes')
    /\ IssuesProofRequest =>
          /\ pc' = "proof"
          /\ head' # NoHead
          /\ requests'[Len(requests')] = ProofRequest(cur', leafHash', head'.treeSize)
          /\ \/ pc = "sth" /\ cur' = cur
             \/ LogStateOf(cur') = "readonly" /\ head' = FinalTreeHead(leafHash')

\* C28: an SCT is scored verified = true only when a tree head was obtained,
\* its get-proof-by-hash request was issued after that with the tree_size of
\* that tree head, the request succeeded, and the root recomputed from the
\* returned proof equals the root hash of the same tree head; a proof
\* request is issued only once the tree head is there.
C28_VerifiedOnlyAgainstObtainedHead == [][VerifiedOnlyAgainstObtainedHead]_vars

\* the first SCT, of a usable log, was scored verified after a get-sth and a
\* proof request with the tree size of the tree head; the second was scored
\* too
C28_Witness ==
    /\ pc = "returned"
    /\ Len(results) = 2
    /\ results[1].verified
    /\ LogStateOf(1) = "usable"
    /\ requests[1] = Request(1, "get-sth")
    /\ requests[2].kind = "get-proof-by-hash"
    /\ requests[2].sct = 1
    /\ requests[2].tree_size = 2
    /\ ~fetchFailed[1]

----------------------------------------------------------------------------
(* Claims about the proof check against RFC 9162, under SpecMerkle *)

\* RFC 9162 section 2.1.3.2: fn and sn shifted right together until fn is
\* odd or 0
RECURSIVE SkipLevels(_, _)
SkipLevels(fn, sn) ==
    IF fn % 2 = 1 \/ fn = 0 THEN <<fn, sn>>
    ELSE SkipLevels(fn \div 2, sn \div 2)

\* the walk over the audit path: r is the hash reached, fits says that sn
\* was not 0 at any sibling and is 0 after the last
RECURSIVE Rfc9162Walk(_, _, _, _)
Rfc9162Walk(r, fn, sn, path) ==
    IF path = <<>> THEN [fits |-> sn = 0, r |-> r]
    ELSE IF sn = 0 THEN [fits |-> FALSE, r |-> r]
    ELSE LET p == Bytes(Head(path).len, Head(path).val)
             onRight == fn % 2 = 1 \/ fn = sn
             s == IF onRight /\ fn % 2 = 0 THEN SkipLevels(fn, sn) ELSE <<fn, sn>>
         IN  Rfc9162Walk(IF onRight THEN SHA256(NodeHashInput(p, r))
                                    ELSE SHA256(NodeHashInput(r, p)),
                         s[1] \div 2, s[2] \div 2, Tail(path))

Rfc9162Valid(leaf, leafIndex, path, treeSize, rootHash) ==
    /\ leafIndex < treeSize
    /\ LET w == Rfc9162Walk(leaf, leafIndex, treeSize - 1, path)
       IN  w.fits /\ bytesEqual(w.r, rootHash)

\* C23: for every tree size n >= 1, leaf index below n, audit path and root
\* hash, the verdict of the proof check is that of the RFC 9162 algorithm; in
\* particular a correct proof in a tree whose size is not a power of two
\* (n = 3, index 2) verifies true.
C23_SameVerdictAsRfc9162 ==
    (mVerdict # "pending" /\ mProof.leaf_index < mHead.treeSize) =>
        (mVerdict = "true" <=>
            Rfc9162Valid(TestLeafHash(mLeaf), mProof.leaf_index, mProof.audit_path,
                         mHead.treeSize, mHead.rootHash))

\* C24: an audit path whose number of entries does not fit the leaf index
\* and the tree size (sn is 0 while siblings remain, or sn is not 0 after the
\* last sibling) is rejected, also when the recomputed hash equals the
\* supplied root hash.
C24_WrongPathLengthRejected ==
    (/\ mVerdict # "pending"
     /\ ~Rfc9162Walk(TestLeafHash(mLeaf), mProof.leaf_index, mHead.treeSize - 1,
                     mProof.audit_path).fits)
        => mVerdict = "false"

----------------------------------------------------------------------------
(* Claims about decoding lengths, under SpecExtract *)

\* C25: an out-of-bound length is a decode failure.  A length returned by
\* parseASN1Length was read from bytes inside the buffer and does not exceed
\* the bytes that remain after it, and a TBSCertificate returned by
\* extractTBSCertificate is not shorter than its own declared length.
C25_OutOfBoundLengthIsFailure ==
    /\ (xLength # Pending /\ ~xLength.undef) =>
          /\ xLength.nextPos <= Len(xCert)
          /\ xLength.nextPos + xLength.length <= Len(xCert)
    /\ (xTbs # Pending /\ ~xTbs.null) =>
          LET declared == parseASN1Length(xTbs.bytes, 1)
          IN  /\ ~declared.undef
              /\ declared.nextPos + declared.length <= Len(xTbs.bytes)

----------------------------------------------------------------------------
(* Claims about encodeBigEndian, under SpecEncode *)

\* the value is below 256^width: its bytes from position width on are 0
Representable(value, width) ==
    \A i \in width..(3 * Len(value) - 1) : ShiftMask(value, i) = 0

\* C26: encodeBigEndian(value, width) fails when value >= 256^width and
\* returns no bytes; in particular no 3-byte tbs_length is produced for a
\* length of 2^24 or more.
C26_OverflowFails ==
    (eBytes # Pending /\ ~Representable(eValue, eWidth)) => eBytes.threw

----------------------------------------------------------------------------
(* Claims about containsOID, under SpecContains *)

\* the pattern lies in the buffer at offset i
OccursAt(bytes, i, oid) ==
    \A j \in 0..(Len(oid) - 1) : At(bytes, i + j) = oid[j + 1]

\* C27: containsOID(bytes, start, end, needle) is true exactly when the
\* needle occurs at an offset i with start <= i and i + length(needle) <= end,
\* an occurrence that ends exactly at end included.
C27_FindsEveryOccurrence ==
    cFound # Pending =>
        (cFound.found <=>
            \E i \in cStart..(cEnd - Len(cOid)) : OccursAt(cBytes, i, cOid))

----------------------------------------------------------------------------
(* Claims about certificateCache, under SpecCache *)

AllDone(t) ==
    \A h \in 1..Len(handlers) : handlers[h].tabId = t => handlers[h].at = "done"

\* C29: after a tab was closed, certificateCache holds no entry for it once
\* every invocation of the onHeadersReceived listener for it has finished,
\* also when the tab was closed while an invocation awaited getSecurityInfo.
C29_NoEntryForClosedTab ==
    \A t \in closedTabs : AllDone(t) => certificateCache[t] = NoEntry

\* C30: when two main-frame HTTPS responses for one tab are processed
\* concurrently and both getSecurityInfo calls give security info, then once
\* both invocations have finished the entry of the tab is the certificate
\* data of the response received last.
C30_EntryIsLastResponse ==
    \A t \in Tabs \ closedTabs : \A i, j \in 1..Len(handlers) :
        (/\ i < j
         /\ handlers[i].tabId = t /\ handlers[j].tabId = t
         /\ handlers[i].stored /\ handlers[j].stored
         /\ handlers[j].concurrent
         /\ AllDone(t)
         /\ \A k \in 1..Len(handlers) : k \notin {i, j} => handlers[k].tabId # t)
            => certificateCache[t] = Entry(j)

====
